---------------------------- MODULE Spec2Model ----------------------------
(***************************************************************************)
(* A model of the spin lock of src/main.rs: SpinLock<T> (an AtomicBool     *)
(* `locked` and an UnsafeCell `value`), its Guard (Deref, DerefMut, Drop)  *)
(* and the threads of main that use it.                                    *)
(*                                                                         *)
(* The protected value is the Vec of main.  Vec::push through a Guard is   *)
(* two memory accesses (read the vector, write the extended vector), so a  *)
(* second writer between them is visible as a lost update.                 *)
(*                                                                         *)
(* The Acquire/Release orderings are modelled by happens-before views:     *)
(* synced[p] says that the last write to the value happens-before p's next *)
(* access, relSync says the same of the view published by the release      *)
(* sequence the flag currently carries.  An access without that edge is a  *)
(* data race, which is undefined behaviour: the model lets such a read     *)
(* return the vector as it was after any earlier number of pushes, and     *)
(* lets racing pushes overwrite each other.                                *)
(***************************************************************************)
EXTENDS Integers, Sequences, FiniteSets

\* Bounds of the model.
NThreads == 2       \* spawned threads (main spawns two, lines 70-71)
MaxCalls == 3       \* lock() calls the spawned threads may make in all
MaxLen == 3         \* pushes the threads may make in all
MaxUnlocks == 1     \* unlock() calls the threads may make in all

Threads == 1..NThreads
Main == 0
Procs == Threads \cup {Main}

VARIABLES
  locked,    \* SpinLock.locked
  value,     \* SpinLock.value: the Vec
  synced,    \* synced[p]: the last write to value happens-before p
  relSync,   \* the view published by the flag's release sequence is current
  pc,        \* where each thread is
  local,     \* local[t]: the Vec as t read it for the push it is making
  secs,      \* secs[t]: lock() calls thread t has made
  spins,     \* spins[p]: parity of the failed swaps of p
  pushed,    \* pushed[t]: pushes thread t has completed
  result,    \* what main read under its final lock()
  rel,       \* rel[p]: stores of false made for p's latest acquisition
             \* up to the drop of its Guard (0..2)
  acqs,      \* successful swaps since the last store of false (0..2)
  manual,    \* unlock() calls made so far
  twice,     \* some acquisition has been released twice
  order      \* the critical sections of the spawned threads in the order
             \* of their successful swaps, each named by the element it
             \* pushes; a section that ends without a push leaves the
             \* record, and the record is given up once unlock() is called

vars == <<locked, value, synced, relSync, pc, local, secs, spins,
          pushed, result, rel, acqs, manual, twice, order>>

\* Guard { lock: self } exists for p: between lock() returning and drop,
\* a further lock() call made in between included.
Live(p) == pc[p] \in {"held", "push", "asserted", "relock", "held2"}

\* The element thread t pushes in its k-th section: main's thread A pushes 1
\* and thread B pushes 2; later sections push values that no other section
\* pushes (k is 0 in a section that came of a call that was not counted).
Val(t, k) == t + NThreads * (k - 1)

\* SpinLock::new: unlocked, wrapping the given value (Vec::new() in main).
new(v) ==
  /\ locked = FALSE
  /\ value = v

Init ==
  /\ new(<<>>)
  /\ synced = [p \in Procs |-> TRUE]
  /\ relSync = TRUE
  /\ pc = [p \in Procs |-> IF p = Main THEN "scope" ELSE "idle"]
  /\ local = [p \in Procs |-> <<>>]
  /\ secs = [t \in Threads |-> 0]
  /\ spins = [p \in Procs |-> 0]
  /\ pushed = [t \in Threads |-> 0]
  /\ result = <<>>
  /\ rel = [p \in Procs |-> 0]
  /\ acqs = 0
  /\ manual = 0
  /\ twice = FALSE
  /\ order = <<>>

\* The counters rel and acqs stop at 2: all that is asked of them is whether
\* something happened never, once or more than once.
Inc2(n) == IF n < 2 THEN n + 1 ELSE n

\* The store of a fetch_xor(true): the flag is toggled.
SwapStoreToggle == ~locked

\* A swap that writes false: the flag is never set.
SwapStoreFalse == FALSE

\* What swap(true, Acquire) writes to the flag.
SwapStore == TRUE

\* A lock() that returns whatever the swap returned.
LockReturnsAlways(prev) == TRUE

\* A lock() with the loop condition negated.
LockReturnsInverted(prev) == prev

\* The loop condition of lock(): `while self.locked.swap(true, Acquire)`
\* leaves the loop when the swap returned false.
LockReturns(prev) == ~prev

\* A swap with Relaxed ordering: p learns nothing from the flag.
AcquireViewRelaxed(p) == synced[p]

\* Acquire on the swap: p synchronizes with the release sequence it read.
AcquireView(p) == synced[p] \/ relSync

\* A store with Relaxed ordering: nothing is published.
ReleaseViewRelaxed(p) == FALSE

\* Release on the store: the storing thread's view is published.
ReleaseView(p) == synced[p]

\* A release that stores true.
ReleaseStoreTrue == TRUE

\* What Guard::drop and unlock() write to the flag.
ReleaseStore == FALSE

\* f[1] + ... + f[n]
RECURSIVE Sum(_, _)
Sum(f, n) == IF n = 0 THEN 0 ELSE f[n] + Sum(f, n - 1)

\* lock() calls made so far by the spawned threads.
Calls == Sum(secs, NThreads)

\* A spawned closure calls x.lock().
call_lock(t) ==
  /\ pc[t] = "idle"
  /\ Calls < MaxCalls
  /\ pc' = [pc EXCEPT ![t] = "lock"]
  /\ secs' = [secs EXCEPT ![t] = @ + 1]
  /\ UNCHANGED <<locked, value, synced, relSync, local, spins,
                 pushed, result, rel, acqs, manual, twice, order>>

\* A thread that runs critical sections in a loop calls x.lock() again
\* after the counted calls are used up; the call is not counted.
call_again(t) ==
  /\ pc[t] = "idle"
  /\ Calls >= MaxCalls
  /\ pc' = [pc EXCEPT ![t] = "lock"]
  /\ UNCHANGED <<locked, value, synced, relSync, local, secs, spins,
                 pushed, result, rel, acqs, manual, twice, order>>

\* The elements of a sequence.
Range(s) == {s[i] : i \in 1..Len(s)}

\* The record of sections with section x entered: x comes last, unless an
\* earlier section of the same name (a call that was not counted) is there.
Enter(o, x) == IF x \in Range(o) THEN o ELSE Append(o, x)

\* The record of sections without section x.
RECURSIVE Leave(_, _)
Leave(o, x) ==
  IF o = <<>> THEN <<>>
  ELSE IF Head(o) = x THEN Leave(Tail(o), x)
  ELSE <<Head(o)>> \o Leave(Tail(o), x)

\* One iteration of the loop of SpinLock::lock: the atomic swap, then either
\* spin_loop() and another iteration, or the Guard.
lock(p) ==
  /\ pc[p] = "lock"
  /\ LET prev == locked IN
       /\ locked' = SwapStore
       /\ IF LockReturns(prev)
            THEN /\ pc' = [pc EXCEPT ![p] = "held"]
                 /\ synced' = [synced EXCEPT ![p] = AcquireView(p)]
                 /\ spins' = [spins EXCEPT ![p] = 0]
                 /\ rel' = [rel EXCEPT ![p] = 0]
                 /\ acqs' = Inc2(acqs)
                 /\ order' = IF p \in Threads /\ manual = 0
                                THEN Enter(order, Val(p, secs[p]))
                                ELSE order
            ELSE /\ spins' = [spins EXCEPT ![p] = 1 - @]
                 /\ synced' = [synced EXCEPT ![p] = AcquireView(p)]
                 /\ UNCHANGED <<pc, rel, acqs, order>>
  /\ UNCHANGED <<value, relSync, local, secs, pushed, result,
                 manual, twice>>

\* The vector after each number of pushes up to the present one.
Stale(v) == {SubSeq(v, 1, n) : n \in 0..Len(v)}

\* A read of the cell by p: the value, or under a data race any earlier one.
Load(p) == IF synced[p] THEN {value} ELSE Stale(value)

\* Pushes completed or under way.
Pushes == Sum(pushed, NThreads) + Cardinality({t \in Threads : pc[t] = "push"})

\* Guard::deref_mut followed by the first half of Vec::push: the holder
\* takes the exclusive reference and reads the vector.
deref_mut(t) ==
  /\ pc[t] = "held"
  /\ t \in Threads
  /\ Pushes < MaxLen
  /\ \E r \in Load(t) : local' = [local EXCEPT ![t] = r]
  /\ pc' = [pc EXCEPT ![t] = "push"]
  /\ UNCHANGED <<locked, value, synced, relSync, secs, spins,
                 pushed, result, rel, acqs, manual, twice, order>>

\* The second half of Vec::push: the extended vector is written back, and
\* the exclusive reference ends with the call.
push(t) ==
  /\ pc[t] = "push"
  /\ value' = Append(local[t], Val(t, secs[t]))
  /\ local' = [local EXCEPT ![t] = <<>>]
  /\ synced' = [p \in Procs |-> p = t]
  /\ relSync' = FALSE
  /\ pushed' = [pushed EXCEPT ![t] = @ + 1]
  /\ pc' = [pc EXCEPT ![t] = "held"]
  /\ UNCHANGED <<locked, secs, spins, result, rel, acqs, manual, twice, order>>

\* Guard::drop: self.lock.locked.store(false, Release).
drop(p) ==
  /\ pc[p] \in (IF p = Main THEN {"asserted"} ELSE {"held"})
  /\ locked' = ReleaseStore
  /\ relSync' = ReleaseView(p)
  /\ pc' = [pc EXCEPT ![p] = IF p = Main THEN "done" ELSE "idle"]
  /\ rel' = [rel EXCEPT ![p] = Inc2(@)]
  /\ twice' = (twice \/ rel'[p] = 2)
  /\ acqs' = 0
  /\ order' = IF p \in Threads /\ manual = 0 /\ Val(p, secs[p]) \notin Range(value)
                THEN Leave(order, Val(p, secs[p]))
                ELSE order
  /\ UNCHANGED <<value, synced, local, secs, spins, pushed, result,
                 manual>>

\* p has acquired the lock and its acquisition has not ended: its Guard is
\* live, or was discarded without running drop.
Owns(p) == Live(p) \/ pc[p] = "forgot"

\* The holder discards its Guard without running drop (mem::forget): the
\* &mut T from lock() is gone and the flag stays held, which is the state
\* the safety contract of unlock() asks for.  Every Guard so discarded can
\* still be released by an unlock() call.
forget(t) ==
  /\ pc[t] = "held"
  /\ t \in Threads
  /\ manual + Cardinality({u \in Threads : pc[u] = "forgot"}) < MaxUnlocks
  /\ pc' = [pc EXCEPT ![t] = "forgot"]
  /\ UNCHANGED <<locked, value, synced, relSync, local, secs, spins,
                 pushed, result, rel, acqs, manual, twice, order>>

\* SpinLock::unlock: self.locked.store(false, Release), whoever calls it and
\* whatever the state of the lock.  The caller is between two operations of
\* its own: outside a critical section, inside one with its Guard live, or
\* inside one whose Guard it discarded, which the call ends.
unlock(t) ==
  /\ pc[t] \in {"idle", "held", "forgot"}
  /\ manual < MaxUnlocks
  /\ locked' = ReleaseStore
  /\ relSync' = ReleaseView(t)
  /\ pc' = [pc EXCEPT ![t] = IF @ = "forgot" THEN "idle" ELSE @]
  /\ rel' = [rel EXCEPT ![t] = IF Owns(t) THEN Inc2(@) ELSE @]
  /\ twice' = (twice \/ rel'[t] = 2)
  /\ acqs' = 0
  /\ manual' = manual + 1
  /\ order' = <<>>
  /\ UNCHANGED <<value, synced, local, secs, spins, pushed, result>>

\* A thread that holds a live Guard calls x.lock() again.
relock(t) ==
  /\ pc[t] = "held"
  /\ t \in Threads
  /\ pc' = [pc EXCEPT ![t] = "relock"]
  /\ UNCHANGED <<locked, value, synced, relSync, local, secs, spins,
                 pushed, result, rel, acqs, manual, twice, order>>

\* One iteration of the loop of SpinLock::lock in that second call: the same
\* swap, which knows nothing of the caller's first Guard.
lock_again(t) ==
  /\ pc[t] = "relock"
  /\ LET prev == locked IN
       /\ locked' = SwapStore
       /\ IF LockReturns(prev)
            THEN /\ pc' = [pc EXCEPT ![t] = "held2"]
                 /\ spins' = [spins EXCEPT ![t] = 0]
                 /\ acqs' = Inc2(acqs)
            ELSE /\ spins' = [spins EXCEPT ![t] = 1 - @]
                 /\ UNCHANGED <<pc, acqs>>
  /\ synced' = [synced EXCEPT ![t] = AcquireView(t)]
  /\ UNCHANGED <<value, relSync, local, secs, pushed, result, rel,
                 manual, twice, order>>

\* Guard::drop of the Guard the second call returned; the first is live.
drop_inner(t) ==
  /\ pc[t] = "held2"
  /\ locked' = ReleaseStore
  /\ relSync' = ReleaseView(t)
  /\ pc' = [pc EXCEPT ![t] = "held"]
  /\ acqs' = 0
  /\ UNCHANGED <<value, synced, local, secs, spins, pushed, result,
                 rel, manual, twice, order>>

\* The spawned closure returns.
finish(t) ==
  /\ pc[t] = "idle"
  /\ pc' = [pc EXCEPT ![t] = "done"]
  /\ UNCHANGED <<locked, value, synced, relSync, local, secs,
                 spins, pushed, result, rel, acqs, manual, twice, order>>

\* thread::scope returns once every spawned thread has been joined; main
\* then calls x.lock().
main_scope ==
  /\ pc[Main] = "scope"
  /\ \A t \in Threads : pc[t] = "done"
  /\ pc' = [pc EXCEPT ![Main] = "lock"]
  /\ synced' = [synced EXCEPT ![Main] = TRUE]
  /\ UNCHANGED <<locked, value, relSync, local, secs, spins,
                 pushed, result, rel, acqs, manual, twice, order>>

\* The assertion of main on the slice it read.
assert(g) == g = <<1, 2, 2>> \/ g = <<2, 2, 1>>

\* Guard::deref: a shared reference to the value, read by the holder.  Its
\* one use is main's g.as_slice(), read for the assertion.
deref ==
  /\ pc[Main] = "held"
  /\ \E r \in Load(Main) : result' = r
  /\ pc' = [pc EXCEPT ![Main] = "asserted"]
  /\ UNCHANGED <<locked, value, synced, relSync, local, secs,
                 spins, pushed, rel, acqs, manual, twice, order>>

Thread(t) ==
  \/ call_lock(t)
  \/ lock(t)
  \/ deref_mut(t)
  \/ push(t)
  \/ drop(t)
  \/ finish(t)

MainThread ==
  \/ main_scope
  \/ lock(Main)
  \/ deref
  \/ drop(Main)

Next ==
  \/ \E t \in Threads : Thread(t)
  \/ MainThread

\* lock() and Guard drop only: unlock() is never called.
Spec == Init /\ [][Next]_vars

\* Any thread may also call unlock(), within its safety contract or not.
NextUnlock ==
  \/ Next
  \/ \E t \in Threads : unlock(t)

SpecUnlock == Init /\ [][NextUnlock]_vars

\* Threads that go on calling lock() for ever.
ThreadLoop(t) ==
  \/ Thread(t)
  \/ call_again(t)

NextLoop ==
  \/ \E t \in Threads : ThreadLoop(t)
  \/ MainThread

LoopSpec == Init /\ [][NextLoop]_vars

\* Thread A is the thread that waits, thread B the one that acquires and
\* releases for ever.
Victim == 1
Hog == 2

\* One outcome of the arbitration between the swaps: each swap of the
\* victim comes while the flag is held.  The hog never returns.
Arbitration(t) ==
  /\ (t = Victim /\ pc[t] = "lock") => locked
  /\ t = Hog => pc'[t] # "done"

NextStarve == \E t \in Threads : ThreadLoop(t) /\ Arbitration(t)

\* Every thread takes each step the arbitration leaves it.
StarveSpec ==
  /\ Init /\ [][NextStarve]_vars
  /\ \A t \in Threads : SF_vars(ThreadLoop(t) /\ Arbitration(t))

\* lock() and drop only, every thread and main scheduled again and again.
\* unlock() called within its safety contract: by the holder, after its
\* Guard was discarded without running drop.
release(t) == pc[t] = "forgot" /\ unlock(t)

\* The program with acquisitions released either by drop or, within the
\* contract, by unlock().
NextContract == Next \/ \E t \in Threads : forget(t) \/ release(t)

SpecContract == Init /\ [][NextContract]_vars

\* unlock() called by a thread outside its critical sections while another
\* thread is inside a second lock() call.
rescue(u) ==
  /\ pc[u] = "idle"
  /\ \E t \in Threads \ {u} : pc[t] = "relock"
  /\ unlock(u)

\* The program with threads that call lock() again while they hold a Guard.
NextReentrant ==
  \/ Next
  \/ \E t \in Threads : relock(t) \/ lock_again(t) \/ drop_inner(t) \/ rescue(t)

SpecReentrant == Init /\ [][NextReentrant]_vars

FairSpec ==
  /\ Spec
  /\ \A t \in Threads : WF_vars(Thread(t))
  /\ WF_vars(MainThread)

---------------------------------------------------------------------------
\* Definitions the properties share.

LiveGuards == {p \in Procs : Live(p)}

\* The spawned threads have returned and main holds the slice it read.
MainRead == pc[Main] \in {"asserted", "done"}

\* The threads ran the program of main: thread 1 (A) one section with one
\* push, thread 2 (B) one section with two pushes, no other thread anything.
MainProgram ==
  /\ secs[1] = 1 /\ pushed[1] = 1
  /\ secs[2] = 1 /\ pushed[2] = 2
  /\ \A t \in Threads : t > 2 => secs[t] = 0

\* Equal elements of s are next to each other.  Every section pushes a
\* value of its own (Val), so this says that no section's pushes are split.
Contiguous(s) ==
  \A i, j \in 1..Len(s) :
    (i < j /\ s[i] = s[j]) => \A m \in i..j : s[m] = s[i]

\* The thread that pushed x.
Owner(x) == ((x - 1) % NThreads) + 1

\* How many elements of s thread t pushed.
CountOf(s, t) == Cardinality({i \in 1..Len(s) : Owner(s[i]) = t})

\* p executes one iteration of the loop of lock().
LockStep(p) ==
  /\ pc[p] = "lock"
  /\ pc'[p] = "held" \/ spins'[p] # spins[p]

\* p's Guard is dropped.
DropStep(p) == Live(p) /\ ~Live(p)'

---------------------------------------------------------------------------
\* C1. Mutual exclusion: when the threads only call lock() and drop the
\* Guard it returned, at most one Guard of the SpinLock is live in every
\* reachable state.
C1_MutualExclusion == Cardinality(LiveGuards) <= 1

\* A thread holds the Guard while another has called lock() and has had a
\* swap fail.
C1_Witness ==
  \E t, u \in Threads :
    t # u /\ Live(t) /\ pc[u] = "lock" /\ spins[u] = 1

\* C2. The pushes of one critical section are contiguous in the vector in
\* every reachable state, and when the threads ran the program of main
\* (A pushes 1 once, B pushes 2 twice under one Guard) the slice main reads
\* under its final lock() is [1, 2, 2] or [2, 2, 1].
C2_SectionsAtomic ==
  /\ Contiguous(value)
  /\ (MainProgram /\ MainRead) => assert(result)

\* main read [2, 2, 1]: B's section came first and A's push followed it.
C2_Witness == MainProgram /\ MainRead /\ result = <<2, 2, 1>>

\* C3. No lost updates: what a holder reads is the vector with every push
\* made so far, so the vector holds each completed push exactly once: its
\* length is the number of pushes completed, each thread's elements are as
\* many as it pushed, and main's final read returns all of them.
C3_NoLostUpdates ==
  /\ Len(value) = Sum(pushed, NThreads)
  /\ \A t \in Threads : CountOf(value, t) = pushed[t]
  /\ \A t \in Threads : pc[t] = "push" => local[t] = value
  /\ MainRead => result = value

\* Both threads pushed, one after the other's release, and main read the
\* three elements.
C3_Witness ==
  /\ MainRead
  /\ Len(result) >= 3
  /\ \A t \in Threads : t <= 2 => pushed[t] > 0

\* C4. Guard destruction releases the lock exactly once on every exit path:
\* a Guard can be dropped whenever its holder is between two accesses,
\* whatever it did before; the drop is the first and only store of false for
\* that acquisition and leaves the flag free; and when only lock() and drop
\* are used, no other step takes the flag from held to free.
C4_DropReleasesOnce ==
  /\ [](\A t \in Threads : pc[t] = "held" => ENABLED drop(t))
  /\ [](\A p \in Procs : rel[p] <= 1)
  /\ [][\A p \in Procs :
         DropStep(p) => (rel[p] = 0 /\ rel'[p] = 1 /\ ~locked')]_vars
  /\ [][(locked /\ ~locked') => \E p \in Procs : DropStep(p)]_vars

\* One thread has left a section in which it pushed nothing, another a
\* section in which it pushed twice; each released once.
C4_Witness ==
  \E t, u \in Threads :
    /\ pc[t] = "done" /\ secs[t] = 1 /\ pushed[t] = 0 /\ rel[t] = 1
    /\ pc[u] = "done" /\ secs[u] = 1 /\ pushed[u] = 2 /\ rel[u] = 1

\* C5. Reusability: the drop of a Guard leaves the flag free, a swap made
\* on a free flag returns the Guard to whichever thread makes it, and the
\* flag is never held without a live Guard, after any number of
\* acquire/release cycles.
C5_Reusable ==
  /\ [](locked => LiveGuards # {})
  /\ [][\A p \in Procs : DropStep(p) => ~locked']_vars
  /\ [][\A p \in Procs : (LockStep(p) /\ ~locked) => Live(p)']_vars

\* The thread that released the lock holds it again, and so, after it,
\* does another thread.
C5_Witness ==
  \E t, u \in Threads :
    t # u /\ secs[t] = 2 /\ rel[t] = 1 /\ pc[t] = "idle" /\ Live(u)

\* C6. lock() is a test-and-set: every iteration writes held; it returns
\* the Guard exactly when the flag was free before the swap, and otherwise
\* stays in the loop.  So no two swaps succeed without a store of false
\* between them, whether or not unlock() is used.
C6_TestAndSet ==
  /\ [](acqs <= 1)
  /\ [][\A p \in Procs :
         LockStep(p) =>
           /\ locked'
           /\ Live(p)' <=> ~locked
           /\ locked => (pc'[p] = "lock" /\ spins'[p] # spins[p])]_vars

\* A thread whose swap failed is still in the loop after the flag has been
\* released, another thread having held the lock twice.
C6_Witness ==
  \E p, t \in Threads :
    /\ p # t
    /\ pc[p] = "lock" /\ spins[p] = 1 /\ ~locked
    /\ secs[t] = 2 /\ rel[t] = 1

\* C7. Acquisition always succeeds in the end: the threads run finitely many
\* critical sections of finitely many steps, so when every thread keeps
\* taking steps each lock() call returns its Guard, and in the end all
\* threads and main have finished and the lock is free.
C7_EventuallyAcquires ==
  /\ \A p \in Procs : (pc[p] = "lock") ~> Live(p)
  /\ <>[](~locked /\ \A p \in Procs : pc[p] = "done")

\* The threads ran the program of main, main's final lock() returned and
\* everything has finished.
C7_Witness ==
  /\ MainProgram
  /\ \A p \in Procs : pc[p] = "done"
  /\ ~locked

\* C8. The manual release hazard: when a thread has called unlock() while
\* its Guard was live, the drop of that Guard is a second store of false for
\* the same acquisition; it frees the flag whoever holds the lock by then,
\* and a thread that acquired between the two releases keeps its Guard.
\* After that a further lock() succeeds beside that holder.
C8_DoubleRelease ==
  /\ [][\A t \in Threads :
         (DropStep(t) /\ rel[t] >= 1) =>
           /\ rel'[t] = 2 /\ twice'
           /\ ~locked'
           /\ \A u \in Procs \ {t} : Live(u) => Live(u)']_vars
  /\ [][\A t \in Threads :
         (manual' # manual /\ Live(t) /\ rel'[t] # rel[t]) =>
           (~locked' /\ Live(t)')]_vars

\* An acquisition was released twice, by unlock() and by the drop of its
\* Guard, and two Guards are live, neither of them released by unlock():
\* the holder that acquired between the two releases and the acquirer that
\* came in after the second.
C8_Witness ==
  \E t, u \in Threads :
    /\ t # u
    /\ twice /\ manual = 1
    /\ Live(t) /\ rel[t] = 0
    /\ Live(u) /\ rel[u] = 0

\* C9. No fairness: starvation is possible.  The executions in which every
\* swap of thread A comes while the flag is held, and thread B acquires and
\* releases for ever, are executions of the program (every step is a step
\* of some thread), are weakly fair to every thread, and in them thread A,
\* once it has called lock(), keeps attempting the swap and never acquires.
C9_Starvation ==
  /\ [][NextLoop]_vars
  /\ \A t \in Threads : WF_vars(ThreadLoop(t))
  /\ [](~Live(Victim))
  /\ [](pc[Victim] = "lock" => [](pc[Victim] = "lock"))
  /\ (pc[Victim] = "lock" /\ spins[Victim] = 0) ~> (spins[Victim] = 1)
  /\ (pc[Victim] = "lock" /\ spins[Victim] = 1) ~> (spins[Victim] = 0)

\* Thread A is in lock() with a failed swap behind it, the flag is free,
\* and thread B has released the lock and is calling lock() once more after
\* the counted calls.
C9_Witness ==
  /\ pc[Victim] = "lock" /\ spins[Victim] = 1
  /\ ~locked
  /\ pc[Hog] = "lock" /\ rel[Hog] = 1 /\ Calls >= MaxCalls

\* C10. Only the holder mutates the protected value: every change of the
\* value is the write of a push by a thread whose Guard is live, and while
\* unlock() has not been used that thread's Guard is the only live one.
\* The iterations of lock(), successful or not, the drop of a Guard,
\* unlock() and the read through Deref leave the value as it is.
C10_OnlyHolderMutates ==
  /\ [][value' # value =>
         \E t \in Threads :
           /\ pc[t] = "push" /\ pc'[t] = "held"
           /\ value' = Append(local[t], Val(t, secs[t]))
           /\ manual = 0 => (LiveGuards = {t} /\ local[t] = value)]_vars
  /\ [][(\E p \in Procs : LockStep(p) \/ DropStep(p)) => value' = value]_vars
  /\ [][manual' # manual => value' = value]_vars
  /\ [][(pc[Main] = "held" /\ pc'[Main] = "asserted") =>
         (value' = value /\ result' = value)]_vars

\* The holder has pushed while another thread was spinning in lock(), and
\* a second holder pushed after it.
C10_Witness ==
  \E t, u \in Threads :
    /\ t # u /\ manual = 0
    /\ Live(t) /\ pushed[t] > 0 /\ pushed[u] > 0
    /\ pc[u] = "lock" /\ spins[u] = 1

\* unlock() is called.
UnlockStep == manual' # manual

\* C11. The flag is a two-state machine: a lock built by new() starts free
\* with the value it was given; the flag goes from free to held only by a
\* swap of lock() that returns the Guard, and from held to free only by the
\* drop of a Guard or by unlock(); and while unlock() has not been used the
\* flag is held exactly when one Guard is live.
C11_TwoStates ==
  /\ new(<<>>)
  /\ [][(~locked /\ locked') =>
         \E p \in Procs : LockStep(p) /\ ~Live(p) /\ Live(p)']_vars
  /\ [][(locked /\ ~locked') =>
         (UnlockStep \/ \E p \in Procs : DropStep(p))]_vars
  /\ [](manual = 0 => (locked <=> Cardinality(LiveGuards) = 1))

\* The flag went free -> held -> free through a drop, held again, and free
\* through unlock() while the second holder's Guard is live.
C11_Witness ==
  \E t, u \in Threads :
    /\ t # u
    /\ rel[t] = 1 /\ pc[t] = "idle" /\ ~twice
    /\ Live(u) /\ ~locked /\ manual = 1

\* x repeated n times.
Rep(x, n) == [i \in 1..n |-> x]

\* Occurrences of x in s.
Count(s, x) == Cardinality({i \in 1..Len(s) : s[i] = x})

\* The concatenation, in the order o of the sections, of what each section
\* has appended to s.
RECURSIVE Concat(_, _)
Concat(o, s) ==
  IF o = <<>> THEN <<>>
  ELSE Rep(Head(o), Count(s, Head(o))) \o Concat(Tail(o), s)

\* C12. The protected sequence is the concatenation, in the order of the
\* successful lock() acquisitions, of what each critical section appended:
\* every push appends at the end, every completed push of every thread is
\* there, and the sections of one thread follow each other in the order the
\* thread ran them.
C12_AcquisitionOrder ==
  /\ [](value = Concat(order, value))
  /\ [](\A t \in Threads : CountOf(value, t) = pushed[t])
  /\ [](\A i, j \in 1..Len(value) :
          (i < j /\ Owner(value[i]) = Owner(value[j])) => value[i] <= value[j])
  /\ [][value' # value =>
         \E t \in Threads : value' = Append(value, Val(t, secs[t]))]_vars

\* The three pushes are in, from sections of both threads, and the thread
\* that acquired second pushed in two sections.
C12_Witness ==
  \E t, u \in Threads :
    /\ t # u
    /\ Len(order) = 3 /\ Len(value) = 3
    /\ order = <<value[1], value[2], value[3]>>
    /\ Owner(value[1]) = t /\ Owner(value[2]) = u /\ Owner(value[3]) = u

\* C13. unlock() within its safety contract is a correct release: when
\* every acquisition is released once, by the drop of its Guard or by
\* unlock() called by the holder after discarding the Guard, unlock() sets
\* the flag free and ends the holder's acquisition, no acquisition is
\* released twice, a swap on the free flag returns the Guard with the pushes
\* made before visible to it, and at most one thread has access to the value.
C13_ManualRelease ==
  /\ [](Cardinality({p \in Procs : Owns(p)}) <= 1)
  /\ [](locked <=> \E p \in Procs : Owns(p))
  /\ [](~twice)
  /\ [](\A t \in Threads : pc[t] = "push" => local[t] = value)
  /\ [](\A t \in Threads : CountOf(value, t) = pushed[t])
  /\ [][UnlockStep =>
         /\ locked /\ ~locked'
         /\ \E t \in Threads :
              pc[t] = "forgot" /\ pc'[t] = "idle" /\ rel'[t] = 1]_vars
  /\ [][\A p \in Procs : (LockStep(p) /\ ~locked) => Live(p)']_vars

\* A thread pushed, discarded its Guard and released through unlock(); the
\* other thread then acquired the lock for the first time and pushed.
C13_Witness ==
  \E t, u \in Threads :
    /\ t # u
    /\ manual = 1 /\ pc[t] = "idle" /\ rel[t] = 1 /\ pushed[t] > 0
    /\ secs[u] = 1 /\ Live(u) /\ pushed[u] > 0 /\ locked

\* Some thread is inside a lock() call made while it holds a live Guard.
Nested == \E t \in Threads : pc[t] = "relock"

\* C14. The lock is not reentrant: a lock() call made by a thread that holds
\* a live Guard returns only after another thread has released the flag
\* through unlock(); while unlock() has not been called every swap of that
\* call finds the flag held, the call never returns, the flag is never
\* released again, and no lock() call of any other thread returns either.
C14_NotReentrant ==
  /\ [][\A t \in Threads :
          (pc[t] = "relock" /\ pc'[t] # "relock") =>
             (manual > 0 /\ ~locked /\ pc'[t] = "held2")]_vars
  /\ []((Nested /\ manual = 0) => locked)
  /\ [][(Nested /\ manual' = 0) =>
          /\ Nested' /\ locked'
          /\ \A p \in Procs : pc[p] \in {"lock", "relock"} => pc'[p] = pc[p]]_vars

\* A thread spins in a second lock() call and the other thread spins in its
\* first: each has had a swap find the flag held, and unlock() is unused.
C14_Witness ==
  \E t, u \in Threads :
    /\ t # u
    /\ pc[t] = "relock" /\ spins[t] = 1
    /\ pc[u] = "lock" /\ spins[u] = 1
    /\ manual = 0 /\ locked

\* p executes a swap that finds the flag held.
FailedSwap(p) == LockStep(p) /\ locked

\* C15. A failed acquire attempt has no observable effect: a swap executed
\* while the flag is held leaves the flag held, the value, every thread's
\* position and whatever the holder has read or written as they were; it
\* changes nothing but the caller's own count of attempts and its own view.
C15_FailedSwapFrame ==
  [][\A p \in Procs : FailedSwap(p) =>
        /\ locked'
        /\ UNCHANGED <<value, relSync, pc, local, secs, pushed, result,
                       rel, acqs, manual, twice, order>>
        /\ \A q \in Procs \ {p} :
             synced'[q] = synced[q] /\ spins'[q] = spins[q]]_vars

\* A thread has had a swap find the flag held by the other thread, whose
\* two pushes under that Guard came out whole.
C15_Witness ==
  \E t, u \in Threads :
    /\ t # u
    /\ pc[t] = "lock" /\ spins[t] = 1
    /\ pc[u] = "held" /\ pushed[u] = 2 /\ value = <<u, u>>

==========================================================================
